---- MODULE Spec2Model ----
(***************************************************************************)
(* Model of src/src/video_game_analysis.py: the CSV loader and the         *)
(* publisher analysis for the 2006-2015 window.                            *)
(*                                                                         *)
(* A DataFrame is a bag (multiset) of rows.  A nullable column holds Null  *)
(* (the empty tuple) or Some(v) (the one-element tuple <<v>>).  Sales      *)
(* figures are fixed-point integers counting thousandths, so that          *)
(* round(x, 2) is a rounding to a multiple of 10 and is not the identity.  *)
(* SQL expressions are three-valued: Null, Some(TRUE), Some(FALSE); a      *)
(* filter keeps exactly the rows whose condition is Some(TRUE).            *)
(***************************************************************************)
EXTENDS Integers, Sequences, FiniteSets, Bags, TLC

Null == <<>>
Some(v) == <<v>>

(* ---------------------------- input domain ---------------------------- *)

\* Largest number of data rows of the CSV file.
MaxRows == 3

PublisherValues == {Null, Some("A"), Some("B")}

\* Calendar dates <<year, month, day>> on both sides of both window edges.
ReleaseDateValues ==
    {Null, Some(<<2005, 12, 31>>), Some(<<2006, 1, 1>>),
     Some(<<2015, 12, 31>>), Some(<<2016, 1, 1>>)}

\* <<na_sales, total_sales>> of a row, in thousandths.
SalesValues == {<<Null, Some(15)>>, <<Some(6), Some(15)>>, <<Some(-4), Null>>}

\* Rows of the file, already projected to required_columns.
FileRows ==
    {[publisher |-> p, release_date |-> d, na_sales |-> s[1], total_sales |-> s[2]] :
        p \in PublisherValues, d \in ReleaseDateValues, s \in SalesValues}

(* ------------------------- DataFrame operators ------------------------ *)

\* DataFrame.filter: the rows of df on which the condition is true, with
\* their multiplicities; keep is the set of those rows.
Filter(df, keep) == [r \in keep \cap DOMAIN df |-> df[r]]

\* DataFrame.count()
Count(df) == BagCardinality(df)

\* load_sales_data: .select(*required_columns)
SelectRequired(r) ==
    [publisher |-> r.publisher, release_date |-> r.release_date,
     na_sales |-> r.na_sales, total_sales |-> r.total_sales]

load_sales_data(f) == BagOfAll(SelectRequired, f)

\* f.year(col): the calendar year of a date, null for a null date.
SqlYear(d) == IF d = Null THEN Null ELSE Some(d[1][1])

\* col >= n and col <= n: null when the column is null.
SqlGe(a, n) == IF a = Null THEN Null ELSE Some(a[1] >= n)
SqlLe(a, n) == IF a = Null THEN Null ELSE Some(a[1] <= n)

\* a & b in three-valued logic.
SqlAnd(a, b) ==
    IF a = Some(FALSE) \/ b = Some(FALSE) THEN Some(FALSE)
    ELSE IF a = Null \/ b = Null THEN Null
    ELSE Some(TRUE)

\* Variant: null-safe equality, under which a null matches a null.
SqlEqNullSafe(a, b) == Some(a = b)

\* col == value (value may be None): null when either side is null.
SqlEq(a, b) == IF a = Null \/ b = Null THEN Null ELSE Some(a[1] = b[1])

\* withColumn("year", f.year("release_date"))
WithYear(r) ==
    [publisher |-> r.publisher, release_date |-> r.release_date,
     na_sales |-> r.na_sales, total_sales |-> r.total_sales,
     year |-> SqlYear(r.release_date)]

\* Variant: the upper end of the window excluded.
InWindowBefore2015(r) == SqlAnd(SqlGe(r.year, 2006), SqlLe(r.year, 2014)) = Some(TRUE)

\* (f.col("year") >= 2006) & (f.col("year") <= 2015)
InWindow(r) == SqlAnd(SqlGe(r.year, 2006), SqlLe(r.year, 2015)) = Some(TRUE)

Sales0615(df) ==
    LET withYear == BagOfAll(WithYear, df)
    IN  Filter(withYear, {r \in DOMAIN withYear : InWindow(r)})

RECURSIVE SumRows(_, _, _)
SumRows(df, S, col) ==
    IF S = {} THEN 0
    ELSE LET r == CHOOSE x \in S : TRUE
         IN  (IF r[col] = Null THEN 0 ELSE r[col][1] * df[r])
             + SumRows(df, S \ {r}, col)

\* Variant: the sum of no non-null value is 0.
SqlSumNullAsZero(df, col) == Some(SumRows(df, DOMAIN df, col))

\* f.sum(col): nulls are skipped; the sum of no non-null value is null.
SqlSum(df, col) ==
    IF \A r \in DOMAIN df : r[col] = Null THEN Null
    ELSE Some(SumRows(df, DOMAIN df, col))

\* Variant: rounding down to two decimals.
SqlRound2Floor(x) == IF x = Null THEN Null ELSE Some((x[1] \div 10) * 10)

\* f.round(x, 2): HALF_UP (ties away from zero); null stays null.
SqlRound2(x) ==
    IF x = Null THEN Null
    ELSE IF x[1] >= 0 THEN Some(((x[1] + 5) \div 10) * 10)
    ELSE Some(-((((-x[1]) + 5) \div 10) * 10))

\* groupBy("publisher").agg(f.sum("na_sales").alias("total_na_sales")):
\* one row per distinct publisher, the null publisher being a group too.
GroupByPublisher(df) ==
    {[publisher |-> p,
      total_na_sales |->
          SqlSum(Filter(df, {r \in DOMAIN df : r.publisher = p}), "na_sales")] :
        p \in {r.publisher : r \in DOMAIN df}}

\* Variant: descending order with nulls first.
DescBeforeNullsFirst(a, b) == b # Null /\ (a = Null \/ a[1] > b[1])

\* desc(): a sorts strictly before b; descending order puts nulls last.
DescBefore(a, b) == a # Null /\ (b = Null \/ a[1] > b[1])

\* orderBy(desc).limit(1): the rows that may come first.  The order of rows
\* with equal keys is not fixed by the sort, so each of them may be the one.
OrderByDescLimit1(groups) ==
    {g \in groups : \A h \in groups : ~DescBefore(h.total_na_sales, g.total_na_sales)}

\* sales0615DF.filter(f.col("publisher") == bestNAPublisher)
BestNA(df, best) ==
    Filter(df, {r \in DOMAIN df : SqlEq(r.publisher, best) = Some(TRUE)})

\* Variant: the null test on the wrong sales column.
MissingCountTotalSales(df) == Count(Filter(df, {r \in DOMAIN df : r.total_sales = Null}))

\* bestNADF.filter(f.col("na_sales").isNull()).count()
MissingCount(df) == Count(Filter(df, {r \in DOMAIN df : r.na_sales = Null}))

\* Variant: descending order of years.
AscBeforeDescending(a, b) == a # Null /\ (b = Null \/ a[1] > b[1])

\* orderBy("year"): a sorts strictly before b; ascending order puts nulls first.
AscBefore(a, b) == b # Null /\ (a = Null \/ a[1] < b[1])

RECURSIVE OrderByYear(_)
OrderByYear(rows) ==
    IF rows = {} THEN <<>>
    ELSE LET m == CHOOSE x \in rows : \A y \in rows : ~AscBefore(y.year, x.year)
         IN  <<m>> \o OrderByYear(rows \ {m})

\* groupBy("year").agg(round(sum(na_sales),2), round(sum(total_sales),2)).orderBy("year")
YearlySales(df) ==
    OrderByYear(
        {[year |-> y,
          na_total |->
              SqlRound2(SqlSum(Filter(df, {r \in DOMAIN df : r.year = y}), "na_sales")),
          global_total |->
              SqlRound2(SqlSum(Filter(df, {r \in DOMAIN df : r.year = y}), "total_sales"))] :
            y \in {r.year : r \in DOMAIN df}})

(* ------------------------------- state -------------------------------- *)

VARIABLES
    file,                        \* rows of the CSV file at file_path
    pc,                          \* "idle", "returned" or "TypeError"
    salesDF,                     \* the table the last call loaded
    sales0615DF,
    bestPublisherDF,             \* sequence of at most one ranking row
    bestNAPublisher,
    bestNADF,
    titlesWithMissingSalesData,
    bestNAPublisherSales,        \* sequence of yearly rows
    prev                         \* Null, or Some(outcome of the previous call)

vars == <<file, pc, salesDF, sales0615DF, bestPublisherDF, bestNAPublisher,
          bestNADF, titlesWithMissingSalesData, bestNAPublisherSales, prev>>

results == <<salesDF, sales0615DF, bestPublisherDF, bestNAPublisher,
             bestNADF, titlesWithMissingSalesData, bestNAPublisherSales>>

Init ==
    /\ file = EmptyBag
    /\ pc = "idle"
    /\ salesDF = EmptyBag
    /\ sales0615DF = EmptyBag
    /\ bestPublisherDF = <<>>
    /\ bestNAPublisher = Null
    /\ bestNADF = EmptyBag
    /\ titlesWithMissingSalesData = 0
    /\ bestNAPublisherSales = <<>>
    /\ prev = Null

\* The file is written before the program runs.
WriteRow(r) ==
    /\ pc = "idle"
    /\ Count(file) < MaxRows
    /\ file' = file (+) SetToBag({r})
    /\ UNCHANGED <<pc, results, prev>>

\* One call of analyze_publisher_sales(spark, file_path), start to end.
\* first() of an empty ranking is None, and None["publisher"] raises
\* TypeError before anything else is computed.
analyze_publisher_sales ==
    LET df == load_sales_data(file)
        s0615 == Sales0615(df)
        tops == OrderByDescLimit1(GroupByPublisher(s0615))
    IN  /\ salesDF' = df
        /\ sales0615DF' = s0615
        /\ IF tops = {}
           THEN /\ pc' = "TypeError"
                /\ bestPublisherDF' = <<>>
                /\ bestNAPublisher' = Null
                /\ bestNADF' = EmptyBag
                /\ titlesWithMissingSalesData' = 0
                /\ bestNAPublisherSales' = <<>>
           ELSE \E top \in tops :
                LET best == BestNA(s0615, top.publisher)
                IN  /\ pc' = "returned"
                    /\ bestPublisherDF' = <<top>>
                    /\ bestNAPublisher' = top.publisher
                    /\ bestNADF' = best
                    /\ titlesWithMissingSalesData' = MissingCount(best)
                    /\ bestNAPublisherSales' = YearlySales(best)
        /\ UNCHANGED file

Outcome ==
    [pc |-> pc, salesDF |-> salesDF, bestNAPublisher |-> bestNAPublisher,
     titlesWithMissingSalesData |-> titlesWithMissingSalesData,
     bestNAPublisherSales |-> bestNAPublisherSales]

FirstCall ==
    /\ pc = "idle"
    /\ analyze_publisher_sales
    /\ UNCHANGED prev

\* The same file_path analysed a second time.
SecondCall ==
    /\ pc # "idle"
    /\ prev = Null
    /\ prev' = Some(Outcome)
    /\ analyze_publisher_sales

\* Between the two calls the file gains or loses one row whose release year
\* is not in 2006..2015 (or whose release date is missing).
OutsideWindow(r) == ~InWindow(WithYear(r))

AddOutsideRow(r) ==
    /\ pc # "idle"
    /\ prev = Null
    /\ file = salesDF
    /\ OutsideWindow(r)
    /\ Count(file) < MaxRows
    /\ file' = file (+) SetToBag({r})
    /\ UNCHANGED <<pc, results, prev>>

RemoveOutsideRow(r) ==
    /\ pc # "idle"
    /\ prev = Null
    /\ file = salesDF
    /\ OutsideWindow(r)
    /\ BagIn(r, file)
    /\ file' = file (-) SetToBag({r})
    /\ UNCHANGED <<pc, results, prev>>

Next ==
    \/ \E r \in FileRows : WriteRow(r)
    \/ FirstCall

Spec == Init /\ [][Next]_vars

\* The program run twice on one file_path.
NextTwice ==
    \/ \E r \in FileRows : WriteRow(r)
    \/ FirstCall
    \/ SecondCall
    \/ \E r \in FileRows : AddOutsideRow(r)
    \/ \E r \in FileRows : RemoveOutsideRow(r)

SpecTwice == Init /\ [][NextTwice]_vars

(* ------------------------- properties ---------------------------------- *)
(* The expected values below are computed from the rows of salesDF alone,  *)
(* without the DataFrame operators above.                                  *)

RowYear(r) == r.release_date[1][1]

\* The row has a release date whose calendar year is in 2006..2015.
KeptRow(r) == r.release_date # Null /\ 2006 <= RowYear(r) /\ RowYear(r) <= 2015

WindowRowsOf(df) == {r \in DOMAIN df : KeptRow(r)}

WindowBagOf(df) == [r \in WindowRowsOf(df) |-> df[r]]

WindowRows == WindowRowsOf(salesDF)

WindowPublishers == {r.publisher : r \in WindowRows}

\* publisher == best_publisher as a comparison of values: a missing
\* publisher is equal to nothing.
RowsOfBest ==
    {r \in WindowRows : r.publisher # Null /\ r.publisher = bestNAPublisher}

RowsOfBestIn(y) == {r \in RowsOfBest : RowYear(r) = y}

RECURSIVE SumOver(_, _)
SumOver(S, w) ==
    IF S = {} THEN 0
    ELSE LET x == CHOOSE x \in S : TRUE
         IN  w[x] + SumOver(S \ {x}, w)

Copies == [r \in DOMAIN salesDF |-> salesDF[r]]

\* na_sales and total_sales of all copies of a row, a null counting 0.
NaOf == [r \in DOMAIN salesDF |->
            IF r.na_sales = Null THEN 0 ELSE r.na_sales[1] * salesDF[r]]

GlobalOf == [r \in DOMAIN salesDF |->
                IF r.total_sales = Null THEN 0 ELSE r.total_sales[1] * salesDF[r]]

HasNa(S) == \E r \in S : r.na_sales # Null

HasGlobal(S) == \E r \in S : r.total_sales # Null

RowsOfPublisher(p) == {r \in WindowRows : r.publisher = p}

\* x rounded to a multiple of 10 (two decimals), a tie going away from zero.
Rounded2(x) ==
    LET lo == CHOOSE m \in (x - 9)..x : m % 10 = 0
    IN  IF x - lo < 5 THEN lo
        ELSE IF x - lo > 5 THEN lo + 10
        ELSE IF x >= 0 THEN lo + 10 ELSE lo

Abs(x) == IF x < 0 THEN -x ELSE x

Entries == {bestNAPublisherSales[i] : i \in 1..Len(bestNAPublisherSales)}

NaTotalOf == [e \in Entries |-> IF e.na_total = Null THEN 0 ELSE e.na_total[1]]

\* (best_publisher, yearly_sales, missing_count) of the last call equal
\* those of the call before it.
SameOutcome ==
    /\ prev[1].pc = pc
    /\ prev[1].bestNAPublisher = bestNAPublisher
    /\ prev[1].bestNAPublisherSales = bestNAPublisherSales
    /\ prev[1].titlesWithMissingSalesData = titlesWithMissingSalesData

(* C1, as stated: with a row in the window, the call returns a publisher   *)
(* whose summed na_sales over its window rows, nulls counted as 0, is at   *)
(* least that of every other publisher.                                    *)
C1_BestTotalNullAsZero ==
    (pc # "idle" /\ WindowRows # {}) =>
        /\ pc = "returned"
        /\ bestNAPublisher \in WindowPublishers
        /\ \A q \in WindowPublishers :
              SumOver(RowsOfPublisher(bestNAPublisher), NaOf)
                  >= SumOver(RowsOfPublisher(q), NaOf)

(* C1, amended: with a row in the window, the call returns a publisher of  *)
(* the window whose summed na_sales is at least that of every publisher    *)
(* having a non-null na_sales in the window; a publisher whose window      *)
(* na_sales are all null is returned only when every publisher's are.      *)
C1_BestTotalNullsLast ==
    (pc # "idle" /\ WindowRows # {}) =>
        /\ pc = "returned"
        /\ bestNAPublisher \in WindowPublishers
        /\ \A q \in WindowPublishers :
              HasNa(RowsOfPublisher(q)) =>
                  /\ HasNa(RowsOfPublisher(bestNAPublisher))
                  /\ SumOver(RowsOfPublisher(bestNAPublisher), NaOf)
                         >= SumOver(RowsOfPublisher(q), NaOf)

\* A publisher with a negative total is returned ahead of one with no figure.
C1_Witness ==
    /\ pc = "returned"
    /\ HasNa(RowsOfPublisher(bestNAPublisher))
    /\ SumOver(RowsOfPublisher(bestNAPublisher), NaOf) < 0
    /\ \E q \in WindowPublishers : ~HasNa(RowsOfPublisher(q))

(* C2: a call on a table with no row in the window ends with the distinct  *)
(* EmptyResultError outcome.                                               *)
C2_EmptyWindowIsEmptyResultError ==
    (pc # "idle" /\ WindowRows = {}) => pc = "EmptyResultError"

(* C3: two calls on tables that differ only in rows outside the window     *)
(* give the same best_publisher, yearly_sales and missing_count.           *)
C3_OutsideRowsDoNotInfluence ==
    (/\ prev # Null
     /\ prev[1].salesDF # salesDF
     /\ WindowBagOf(prev[1].salesDF) = WindowBagOf(salesDF)) => SameOutcome

(* C4: two calls on the same table give the same best_publisher,           *)
(* yearly_sales and missing_count.                                         *)
C4_SameInputSameOutcome ==
    (prev # Null /\ prev[1].salesDF = salesDF) => SameOutcome

(* C5, as stated: every yearly entry holds the rounded sums of the         *)
(* non-null na_sales and total_sales of the rows of best_publisher of its  *)
(* year, the sum of no value being 0.                                      *)
C5_YearlyTotalsNullAsZero ==
    pc = "returned" =>
        \A e \in Entries :
            /\ e.na_total = Some(Rounded2(SumOver(RowsOfBestIn(e.year[1]), NaOf)))
            /\ e.global_total = Some(Rounded2(SumOver(RowsOfBestIn(e.year[1]), GlobalOf)))

(* C5, amended: every yearly entry holds the rounded sums of the non-null  *)
(* na_sales and total_sales of exactly the rows of best_publisher of its   *)
(* year; a total whose column is null in all those rows is null.           *)
C5_YearlyTotals ==
    pc = "returned" =>
        \A e \in Entries :
            /\ e.na_total =
                  IF HasNa(RowsOfBestIn(e.year[1]))
                  THEN Some(Rounded2(SumOver(RowsOfBestIn(e.year[1]), NaOf)))
                  ELSE Null
            /\ e.global_total =
                  IF HasGlobal(RowsOfBestIn(e.year[1]))
                  THEN Some(Rounded2(SumOver(RowsOfBestIn(e.year[1]), GlobalOf)))
                  ELSE Null

\* A year without any na_sales, a year with some, and a row of another publisher.
C5_Witness ==
    /\ pc = "returned"
    /\ \E e \in Entries : e.na_total = Null /\ e.global_total # Null
    /\ \E e \in Entries : e.na_total # Null
    /\ \E r \in WindowRows : r.publisher # bestNAPublisher

(* C6: missing_count is the number of window rows of best_publisher with   *)
(* a null na_sales, and those rows add nothing to total_na_sales nor to    *)
(* any na_total.                                                           *)
C6_MissingCount ==
    pc = "returned" =>
        /\ titlesWithMissingSalesData
              = SumOver({r \in RowsOfBest : r.na_sales = Null}, Copies)
        /\ LET counted == {r \in RowsOfPublisher(bestNAPublisher) : r.na_sales # Null}
           IN  bestPublisherDF[1].total_na_sales
                   = IF counted = {} THEN Null ELSE Some(SumOver(counted, NaOf))
        /\ \A e \in Entries :
              LET counted == {r \in RowsOfBestIn(e.year[1]) : r.na_sales # Null}
              IN  e.na_total # Null =>
                      e.na_total = Some(Rounded2(SumOver(counted, NaOf)))

\* The best publisher has rows with and without na_sales.
C6_Witness ==
    /\ pc = "returned"
    /\ titlesWithMissingSalesData >= 1
    /\ bestPublisherDF[1].total_na_sales # Null
    /\ bestNAPublisher # Null

(* C7, as stated: the na_total of all yearly entries add up to the rounded *)
(* sum of the non-null na_sales of all window rows of best_publisher.      *)
C7_YearlySumIsRoundedTotal ==
    pc = "returned" =>
        SumOver(Entries, NaTotalOf) = Rounded2(SumOver(RowsOfBest, NaOf))

(* C7, amended: the na_total of all yearly entries add up to the sum of    *)
(* the non-null na_sales of all window rows of best_publisher within 0.005 *)
(* for each entry, every year being rounded on its own.                    *)
C7_YearlySumWithinHalfCentPerYear ==
    pc = "returned" =>
        Abs(SumOver(Entries, NaTotalOf) - SumOver(RowsOfBest, NaOf))
            <= 5 * Len(bestNAPublisherSales)

\* Two years whose rounded sums do not add up to the rounded total.
C7_Witness ==
    /\ pc = "returned"
    /\ Len(bestNAPublisherSales) >= 2
    /\ SumOver(Entries, NaTotalOf) # Rounded2(SumOver(RowsOfBest, NaOf))

(* C8: when the top group of the ranking is the null publisher, the call   *)
(* returns no yearly entry and matches no row.                             *)
C8_NullPublisherGivesEmptyResult ==
    (pc = "returned" /\ bestNAPublisher = Null) =>
        /\ bestNAPublisherSales = <<>>
        /\ DOMAIN bestNADF = {}
        /\ titlesWithMissingSalesData = 0

\* Rows without publisher have the highest total, ahead of a named publisher.
C8_Witness ==
    /\ pc = "returned"
    /\ bestNAPublisher = Null
    /\ bestPublisherDF[1].total_na_sales # Null
    /\ \E r \in RowsOfPublisher(Null) : r.na_sales = Null
    /\ \E q \in WindowPublishers : q # Null

(* C9: yearly_sales is strictly ascending by year and has exactly one      *)
(* entry for each release year of the window rows of best_publisher, also  *)
(* for a year whose na_sales are all null, and no other entry.             *)
C9_OneEntryPerYearAscending ==
    pc = "returned" =>
        /\ \A i \in 1..(Len(bestNAPublisherSales) - 1) :
              bestNAPublisherSales[i].year[1] < bestNAPublisherSales[i + 1].year[1]
        /\ {e.year : e \in Entries} = {Some(RowYear(r)) : r \in RowsOfBest}
        /\ \A e \in Entries : e.year[1] \in 2006..2015

\* Two years, one of them without any na_sales.
C9_Witness ==
    /\ pc = "returned"
    /\ Len(bestNAPublisherSales) = 2
    /\ \E e \in Entries : e.na_total = Null

(* C10: the window filter keeps exactly the rows with a release date whose *)
(* year is in 2006..2015, both ends included, and no later step sees a     *)
(* row without release date.                                               *)
C10_WindowFilter ==
    pc # "idle" =>
        /\ \A r \in DOMAIN salesDF :
              LET kept == {x \in DOMAIN sales0615DF : SelectRequired(x) = r}
              IN  IF KeptRow(r)
                  THEN kept # {} /\ SumOver(kept, sales0615DF) = salesDF[r]
                  ELSE kept = {}
        /\ \A x \in DOMAIN sales0615DF :
              /\ SelectRequired(x) \in DOMAIN salesDF
              /\ x.release_date # Null
              /\ x.year = Some(RowYear(x))
        /\ \A r \in DOMAIN salesDF :
              (r.release_date # Null /\ RowYear(r) \in {2006, 2015})
                  => BagIn(WithYear(r), sales0615DF)
        /\ \A x \in DOMAIN bestNADF : KeptRow(x)
        /\ \A e \in Entries : e.year # Null
        /\ (pc = "returned") = (WindowRows # {})

\* A row of 2015 kept, a row of 2016 and a row without date dropped.
C10_Witness ==
    /\ pc = "returned"
    /\ \E r \in DOMAIN salesDF : r.release_date = Some(<<2015, 12, 31>>)
    /\ \E r \in DOMAIN salesDF : r.release_date = Some(<<2016, 1, 1>>)
    /\ \E r \in DOMAIN salesDF : r.release_date = Null

====
